---- MODULE Spec2Model ----
(***************************************************************************)
(* The tile write path of the MRF dataset (marfa_dataset.cpp):             *)
(* GDALMRFDataset::WriteTile, AddVersion, ReadTileIdx (bias 0) and the     *)
(* version count computed by Initialize, over a byte-level index file and  *)
(* a byte-level append-mode data file that independent writer sessions     *)
(* share.  Further down: opening a dataset (Initialize, AddOverviews,       *)
(* SetVersion), CreateCopy, and the caching datasets (IdxFP, ReadTileIdx   *)
(* with a bias).                                                           *)
(***************************************************************************)
EXTENDS Integers, Sequences, FiniteSets, TLC

\* ------------------------------------------------------------------ bounds
MaxWriters == 2     \* writer sessions of the multi-writer specification
MaxTiles == 2       \* tile slots of one index generation
MaxData == 3        \* data file length at which appends stop
MaxVer == 2         \* version count at which snapshotting stops
MaxFaults == 1      \* injected short writes per behaviour

\* --------------------------------------------------------------- constants
sizeof_ILIdx == 16  \* struct ILIdx { GIntBig offset; GIntBig size; }
Uninit == -1        \* a byte of memory that was never written (CPLMalloc)

CE_None == "CE_None"
CE_Failure == "CE_Failure"

\* tile payloads handed to WriteTile: two sizes, one a prefix of the other
Payloads == { <<1>>, <<2>>, <<1, 1>> }

VARIABLES
    hasVersions,    \* Raster.versioned
    mp_safe,        \* Raster.mp_safe
    pagecount,      \* tiles of one generation; idxSize = 16 * pagecount
    sessions,       \* the writer sessions that share the two files
    idxFile,        \* bytes of the index file
    dataFile,       \* bytes of the data file
    faults,         \* short writes injected so far
    pc,             \* per session: position inside WriteTile
    verCount,       \* per session: GDALMRFDataset::verCount
    buff,           \* per session: payload bytes of the call in progress
    bptr,           \* per session: GUIntBig(buff), 0 for a null pointer
    infooffset,     \* per session: index offset argument
    size,           \* per session: size argument
    tinfo,          \* per session: local ILIdx, 16 bytes in file order
    offset,         \* per session: local offset returned by VSIFTellL
    ret,            \* per session: local ret / the last return value
    tbuff,          \* per session: local verify buffer
    repeat,         \* per session: the call in progress repeats the call before it
    last,           \* the call started last by a session that works alone:
                    \* <<session, buff, bptr, infooffset>>
    opening,        \* the dataset being opened: Initialize, AddOverviews, SetVersion
    cloning         \* the caching datasets: IdxFP and ReadTileIdx with a bias

\* what WriteTile never assigns
config == <<hasVersions, mp_safe, pagecount, sessions, opening, cloning>>
files == <<idxFile, dataFile>>
args == <<buff, bptr, infooffset, size, repeat, last>>
vars == <<hasVersions, mp_safe, pagecount, sessions, idxFile, dataFile, faults,
          pc, verCount, buff, bptr, infooffset, size, tinfo, offset, ret, tbuff,
          repeat, last, opening, cloning>>

\* ---------------------------------------------------------------- helpers
Min(a, b) == IF a < b THEN a ELSE b
Max(a, b) == IF a > b THEN a ELSE b

Zeros(n) == [i \in 1..n |-> 0]
UninitBuf(n) == [i \in 1..n |-> Uninit]

Pow256(k) == IF k = 0 THEN 1 ELSE IF k = 1 THEN 256 ELSE IF k = 2 THEN 65536 ELSE 16777216

\* net64 of a host value, as the 8 bytes it puts in the file (big-endian).
\* Values of the model stay below 2^31, so the four high bytes are 0.
net64(x) == [i \in 1..8 |-> IF i <= 4 THEN 0 ELSE (x \div Pow256(8 - i)) % 256]

\* net64 of 8 bytes read from the file, as the host value
host64(b) == b[5] * Pow256(3) + b[6] * Pow256(2) + b[7] * Pow256(1) + b[8]

RecOffset(t) == SubSeq(t, 1, 8)
RecSize(t) == SubSeq(t, 9, 16)
MkRec(o, s) == o \o s

\* VSIFSeekL(f, off, SEEK_SET); VSIFReadL(buf, 1, n, f): the buffer afterwards.
\* A read past the end of the file is short and leaves the rest of buf alone.
VSIFReadL(buf, f, off, n) ==
    [i \in 1..n |-> IF off + i <= Len(f) THEN f[off + i] ELSE buf[i]]

\* number of bytes such a read returns
ReadCount(f, off, n) == Max(0, Min(n, Len(f) - off))

\* VSIFSeekL(f, off, SEEK_SET); VSIFWriteL(bytes, 1, n, f) on a "r+b" file:
\* the file afterwards, a gap past the old end reads as zeros
VSIFWriteL(f, off, bytes) ==
    [i \in 1..Max(Len(f), off + Len(bytes)) |->
        IF i > off /\ i <= off + Len(bytes) THEN bytes[i - off]
        ELSE IF i <= Len(f) THEN f[i] ELSE 0]

\* the same write on a file that is not in append mode
PlainWrite(f, pos, bytes) == VSIFWriteL(f, pos, bytes)

\* VSIFWriteL on the data file, opened "a+b" by DataFP: every write lands at
\* the end of the file, wherever the last seek went
AppendWrite(f, pos, bytes) == VSIFWriteL(f, Len(f), bytes)

\* the possible values of (0 == memcmp(a, b, n)); bytes of b that were never
\* written compare either way
MemcmpEqual(a, b) ==
    { e \in BOOLEAN :
        IF e THEN \A i \in 1..Len(a) : b[i] = Uninit \/ b[i] = a[i]
             ELSE \E i \in 1..Len(a) : b[i] = Uninit \/ b[i] # a[i] }

idxSize == sizeof_ILIdx * pagecount

Slots == { sizeof_ILIdx * i : i \in 0..(pagecount - 1) }

NullBuf == [st |-> "null", mem |-> <<>>]
FreedBuf == [st |-> "freed", mem |-> <<>>]

\* VSIFSeekL(ifp, off, SEEK_SET); VSIFReadL(&t, 1, sizeof(ILIdx), ifp) into a
\* record initialised to { 0, 0 }
ReadRecord(idx, off) == VSIFReadL(Zeros(sizeof_ILIdx), idx, off, sizeof_ILIdx)

\* ReadTileIdx with bias 0 on an open index file: the record in host form,
\* or failure on a short read
ReadTileIdx(idx, off) ==
    IF ReadCount(idx, off, sizeof_ILIdx) # sizeof_ILIdx
    THEN [err |-> CE_Failure, offset |-> 0, size |-> 0]
    ELSE LET t == ReadRecord(idx, off)
         IN  [err |-> CE_None, offset |-> host64(RecOffset(t)), size |-> host64(RecSize(t))]

\* the bytes of the data file a record {o, s} refers to
TileBytes(data, o, s) == VSIFReadL(UninitBuf(s), data, o, s)

\* ----------------------------------------------------------------- Init
\* no dataset is being opened, no caching dataset exists
NotOpening == [pc |-> "none"]
NotCloning == [pc |-> <<>>]

InitWith(S) ==
    /\ opening = NotOpening
    /\ cloning = NotCloning
    /\ hasVersions \in BOOLEAN
    /\ mp_safe \in BOOLEAN
    /\ pagecount \in Cardinality(S)..MaxTiles
    /\ sessions = S
    /\ idxFile = Zeros(sizeof_ILIdx * pagecount)
    /\ dataFile = <<>>
    /\ faults = 0
    /\ pc = [w \in S |-> "closed"]
    /\ verCount = [w \in S |-> 0]
    /\ buff = [w \in S |-> <<>>]
    /\ bptr = [w \in S |-> 0]
    /\ infooffset = [w \in S |-> 0]
    /\ size = [w \in S |-> 0]
    /\ tinfo = [w \in S |-> Zeros(sizeof_ILIdx)]
    /\ offset = [w \in S |-> 0]
    /\ ret = [w \in S |-> "none"]
    /\ tbuff = [w \in S |-> NullBuf]
    /\ repeat = [w \in S |-> FALSE]
    /\ last = <<>>

Init == InitWith({1})

InitMW == InitWith(1..MaxWriters)

\* ------------------------------------------------------------ Initialize
\* Initialize: the version count of a versioned raster comes from the size
\* of the index file at open time
VersionsInFile(idx) == (Len(idx) \div idxSize) - 1

Open(w) ==
    /\ pc[w] = "closed"
    /\ pc' = [pc EXCEPT ![w] = "idle"]
    /\ verCount' = [verCount EXCEPT ![w] = IF hasVersions THEN VersionsInFile(idxFile) ELSE 0]
    /\ UNCHANGED <<config, files, faults, args, tinfo, offset, ret, tbuff>>

\* ------------------------------------------------------------ AddVersion
\* AddVersion writing the copy at idxSize * verCount without the increment
AddVersionInPlace(idx, vc) ==
    VSIFWriteL(idx, idxSize * vc, VSIFReadL(UninitBuf(idxSize), idx, 0, idxSize))

\* the index file after AddVersion with version count vc before the call
AddVersion(idx, vc) ==
    VSIFWriteL(idx, idxSize * (vc + 1), VSIFReadL(UninitBuf(idxSize), idx, 0, idxSize))

\* ------------------------------------------------------------- WriteTile
\* new_version when the previous generation is never consulted
NewVersionAlways(vc, cur, prev, sz) ==
    IF RecSize(cur) = net64(sz) THEN TRUE
    ELSE IF vc = 0 /\ RecSize(cur) = Zeros(8) THEN FALSE ELSE TRUE

\* new_version when only the sizes of the two records are compared
NewVersionSizeOnly(vc, cur, prev, sz) ==
    LET differs == IF vc # 0 THEN RecSize(cur) # RecSize(prev) ELSE TRUE
    IN  IF RecSize(cur) = net64(sz) THEN differs
        ELSE IF vc = 0 /\ RecSize(cur) = Zeros(8) THEN FALSE ELSE differs

\* new_version when nothing is snapshotted while the version count is 0
NewVersionNoFirst(vc, cur, prev, sz) == IF vc = 0 THEN FALSE ELSE cur # prev

\* new_version as the versioned branch leaves it when the tile is written
NewVersion(vc, cur, prev, sz) ==
    LET differs == IF vc # 0 THEN cur # prev ELSE TRUE
    IN  IF RecSize(cur) = net64(sz)
        THEN differs
        ELSE IF vc = 0 /\ RecSize(cur) = Zeros(8) THEN FALSE ELSE differs

\* the file offset at which the stored tile is re-read for the comparison
CompareOffset(cur, io) == io

\* the possible values of new_tile
NewTile(cur, b, p, sz, io, data) ==
    IF RecSize(cur) = net64(sz)
    THEN IF sz # 0
         THEN { ~e : e \in MemcmpEqual(b, VSIFReadL(UninitBuf(sz), data, CompareOffset(cur, io), sz)) }
         ELSE { RecOffset(cur) # net64(p) }
    ELSE { TRUE }

\* the locals of a session once its call has returned
Returned(w) ==
    /\ pc' = [pc EXCEPT ![w] = "idle"]
    /\ buff' = [buff EXCEPT ![w] = <<>>]
    /\ bptr' = [bptr EXCEPT ![w] = 0]
    /\ infooffset' = [infooffset EXCEPT ![w] = 0]
    /\ size' = [size EXCEPT ![w] = 0]
    /\ tinfo' = [tinfo EXCEPT ![w] = Zeros(sizeof_ILIdx)]
    /\ offset' = [offset EXCEPT ![w] = 0]
    /\ tbuff' = [tbuff EXCEPT ![w] = NullBuf]
    /\ repeat' = [repeat EXCEPT ![w] = FALSE]

\* the locals of a session whose call goes on to write the tile
Entered(w, b, p, io, t, tb) ==
    /\ pc' = [pc EXCEPT ![w] = IF Len(b) # 0 THEN "seek" ELSE "index"]
    /\ buff' = [buff EXCEPT ![w] = b]
    /\ bptr' = [bptr EXCEPT ![w] = p]
    /\ infooffset' = [infooffset EXCEPT ![w] = io]
    /\ size' = [size EXCEPT ![w] = Len(b)]
    /\ tinfo' = [tinfo EXCEPT ![w] = t]
    /\ offset' = [offset EXCEPT ![w] = 0]
    /\ tbuff' = [tbuff EXCEPT ![w] = tb]
    /\ repeat' = [repeat EXCEPT ![w] = (last = <<w, b, p, io>>)]

\* lines 1626-1693: the call, the versioned branch, tinfo.size = net64(size)
WT_Call(w, b, p, io) ==
    /\ pc[w] = "idle"
    /\ last' = IF sessions = {w} THEN <<w, b, p, io>> ELSE <<>>
    /\ ret' = [ret EXCEPT ![w] = CE_None]
    /\ LET sz == Len(b)
           vc == verCount[w]
           cur == ReadRecord(idxFile, io)
           prev == ReadRecord(idxFile, io + vc * idxSize)
           nv == NewVersion(vc, cur, prev, sz)
           compared == RecSize(cur) = net64(sz) /\ sz # 0
       IN  IF hasVersions
           THEN \E nt \in NewTile(cur, b, p, sz, io, dataFile) :
                  IF ~nt
                  THEN /\ Returned(w)
                       /\ UNCHANGED <<idxFile, verCount>>
                  ELSE /\ nv => vc < MaxVer
                       /\ idxFile' = IF nv THEN AddVersion(idxFile, vc) ELSE idxFile
                       /\ verCount' = [verCount EXCEPT ![w] = IF nv THEN vc + 1 ELSE vc]
                       /\ Entered(w, b, p, io, MkRec(RecOffset(cur), net64(sz)),
                                  IF compared THEN FreedBuf ELSE NullBuf)
           ELSE /\ Entered(w, b, p, io, MkRec(Zeros(8), net64(sz)), NullBuf)
                /\ UNCHANGED <<idxFile, verCount>>
    /\ UNCHANGED <<config, dataFile, faults>>

\* the index file after an AddVersion whose VSIFWriteL stops after k bytes
AddVersionShort(idx, vc, k) ==
    VSIFWriteL(idx, idxSize * (vc + 1),
               SubSeq(VSIFReadL(UninitBuf(idxSize), idx, 0, idxSize), 1, k))

\* lines 1688-1689 with a short write inside AddVersion: the call goes on
WT_CallShort(w, b, p, io) ==
    /\ pc[w] = "idle"
    /\ hasVersions
    /\ faults < MaxFaults
    /\ last' = IF sessions = {w} THEN <<w, b, p, io>> ELSE <<>>
    /\ ret' = [ret EXCEPT ![w] = CE_None]
    /\ LET sz == Len(b)
           vc == verCount[w]
           cur == ReadRecord(idxFile, io)
           prev == ReadRecord(idxFile, io + vc * idxSize)
           compared == RecSize(cur) = net64(sz) /\ sz # 0
       IN  /\ NewVersion(vc, cur, prev, sz)
           /\ TRUE \in NewTile(cur, b, p, sz, io, dataFile)
           /\ vc < MaxVer
           /\ \E k \in { 0, sizeof_ILIdx \div 2 } :
                 idxFile' = AddVersionShort(idxFile, vc, k)
           /\ verCount' = [verCount EXCEPT ![w] = vc + 1]
           /\ Entered(w, b, p, io, MkRec(RecOffset(cur), net64(sz)),
                      IF compared THEN FreedBuf ELSE NullBuf)
    /\ faults' = faults + 1
    /\ UNCHANGED <<config, dataFile>>

\* lines 1697-1698: VSIFSeekL(dfp, 0, SEEK_END); offset = VSIFTellL(dfp)
WT_Seek(w) ==
    /\ pc[w] = "seek"
    /\ offset' = [offset EXCEPT ![w] = Len(dataFile)]
    /\ pc' = [pc EXCEPT ![w] = "write"]
    /\ UNCHANGED <<config, files, faults, args, verCount, tinfo, ret, tbuff>>

\* where the loop goes after the write: the read-back when mp_safe, else the
\* loop test while (tbuff)
AfterWrite(w) ==
    IF mp_safe THEN "verify" ELSE IF tbuff[w].st # "null" THEN "seek" ELSE "index"

\* lines 1699-1702: the append and tinfo.offset = net64(offset)
WT_Write(w) ==
    /\ pc[w] = "write"
    /\ Len(dataFile) + size[w] <= MaxData
    /\ dataFile' = AppendWrite(dataFile, offset[w], buff[w])
    /\ tinfo' = [tinfo EXCEPT ![w] = MkRec(net64(offset[w]), RecSize(tinfo[w]))]
    /\ pc' = [pc EXCEPT ![w] = AfterWrite(w)]
    /\ UNCHANGED <<config, idxFile, faults, args, verCount, offset, ret, tbuff>>

\* the same lines when VSIFWriteL writes only k < size bytes
WT_WriteShort(w) ==
    /\ pc[w] = "write"
    /\ faults < MaxFaults
    /\ Len(dataFile) + size[w] <= MaxData
    /\ \E k \in 0..(size[w] - 1) :
         dataFile' = AppendWrite(dataFile, offset[w], SubSeq(buff[w], 1, k))
    /\ faults' = faults + 1
    /\ ret' = [ret EXCEPT ![w] = CE_Failure]
    /\ tinfo' = [tinfo EXCEPT ![w] = MkRec(net64(offset[w]), RecSize(tinfo[w]))]
    /\ pc' = [pc EXCEPT ![w] = AfterWrite(w)]
    /\ UNCHANGED <<config, idxFile, args, verCount, offset, tbuff>>

\* a read-back that accepts whatever it reads
VerifyAlways(b, mem) == { TRUE }

\* does the read-back accept: 0 == memcmp(buff, tbuff, size)
VerifyPassed(b, mem) == MemcmpEqual(b, mem)

\* lines 1707-1721: the read-back of the mp_safe loop and the loop test
WT_Verify(w) ==
    /\ pc[w] = "verify"
    /\ LET mem0 == IF tbuff[w].st = "live" THEN tbuff[w].mem ELSE UninitBuf(size[w])
           mem1 == VSIFReadL(mem0, dataFile, offset[w], size[w])
       IN  \E eq \in VerifyPassed(buff[w], mem1) :
             IF eq
             THEN /\ tbuff' = [tbuff EXCEPT ![w] = NullBuf]
                  /\ \/ pc' = [pc EXCEPT ![w] = "index"]
                     \/ /\ tbuff[w].st = "freed"
                        /\ pc' = [pc EXCEPT ![w] = "crashed"]
             ELSE /\ tbuff' = [tbuff EXCEPT ![w] =
                                 IF tbuff[w].st = "freed" THEN FreedBuf
                                 ELSE [st |-> "live", mem |-> mem1]]
                  /\ pc' = [pc EXCEPT ![w] = "seek"]
    /\ UNCHANGED <<config, files, faults, args, verCount, tinfo, offset, ret>>

\* the record WriteTile puts in the index: lines 1727-1728
FinalRecord(t, p, sz) ==
    IF p # 0 /\ sz = 0 THEN MkRec(net64(p), RecSize(t)) ELSE t

\* lines 1727-1734: the index record is written and the call returns
WT_Index(w) ==
    /\ pc[w] = "index"
    /\ idxFile' = VSIFWriteL(idxFile, infooffset[w], FinalRecord(tinfo[w], bptr[w], size[w]))
    /\ Returned(w)
    /\ UNCHANGED <<config, dataFile, faults, last, verCount, ret>>

\* the same lines when VSIFWriteL writes only k < 16 bytes of the record
WT_IndexShort(w) ==
    /\ pc[w] = "index"
    /\ faults < MaxFaults
    /\ \E k \in 0..(sizeof_ILIdx - 1) :
         idxFile' = VSIFWriteL(idxFile, infooffset[w],
                               SubSeq(FinalRecord(tinfo[w], bptr[w], size[w]), 1, k))
    /\ faults' = faults + 1
    /\ ret' = [ret EXCEPT ![w] = CE_Failure]
    /\ Returned(w)
    /\ UNCHANGED <<config, dataFile, last, verCount>>

\* the arguments a caller passes: a payload, the marker (size 0, pointer 1)
\* or an erase (size 0, null pointer)
Calls == { <<b, 1>> : b \in Payloads } \cup { << <<>>, 1 >>, << <<>>, 0 >> }

\* the tile slots a session writes: every slot when it is alone; its own
\* slot when several sessions share the files (one tile position, one writer)
SlotsOf(w) == IF sessions = {w} THEN Slots ELSE { sizeof_ILIdx * (w - 1) }

Next ==
    \E w \in sessions :
        \/ Open(w)
        \/ \E c \in Calls, io \in SlotsOf(w) : WT_Call(w, c[1], c[2], io)
        \/ WT_Seek(w)
        \/ WT_Write(w)
        \/ WT_Verify(w)
        \/ WT_Index(w)

NextFault ==
    \/ Next
    \/ \E w \in sessions : WT_WriteShort(w) \/ WT_IndexShort(w)
    \/ \E w \in sessions :
         \E c \in Calls, io \in SlotsOf(w) : WT_CallShort(w, c[1], c[2], io)

Spec == Init /\ [][Next]_vars

SpecMW == InitMW /\ [][Next]_vars

SpecFault == Init /\ [][NextFault]_vars

\* one writer that keeps running: a call that has entered the append loop
\* takes its next step
SpecLive ==
    Init /\ [][Next]_vars
         /\ WF_vars(WT_Seek(1) \/ WT_Write(1) \/ WT_Verify(1) \/ WT_Index(1))

\* =================================================================== claims
\* the record at index offset io refers to exactly the bytes b
StoredIs(idx, data, io, b) ==
    LET r == ReadTileIdx(idx, io)
    IN  /\ r.err = CE_None
        /\ r.size = Len(b)
        /\ TileBytes(data, r.offset, r.size) = b

\* the step in which session w writes its index record and returns
IndexReturn(w) == pc[w] = "index" /\ pc'[w] = "idle"

\* the step in which a session that works alone enters WriteTile; the
\* arguments of that call are last'
CallStep(w) == sessions = {w} /\ pc[w] = "idle"

\* C1: in one process, when WriteTile(buf, idx, size) with size > 0 returns
\* success, ReadTileIdx (bias 0) at idx gives a record of that size whose
\* offset leads to bytes identical to buf.
C1_RoundTrip ==
    [][\A w \in sessions :
        /\ (sessions = {w} /\ IndexReturn(w) /\ ret'[w] = CE_None /\ size[w] > 0)
              => StoredIs(idxFile', dataFile', infooffset[w], buff[w])
        /\ (CallStep(w) /\ pc'[w] = "idle" /\ ret'[w] = CE_None /\ Len(last'[2]) > 0)
              => StoredIs(idxFile', dataFile', last'[4], last'[2])]_vars

\* C2: calling WriteTile twice in a row with the same bytes and size for the
\* same index offset appends once: during the second call the data file does
\* not change, whatever the configuration.
C2_IdempotentRewrite ==
    [][\A w \in sessions : (sessions = {w} /\ repeat[w]) => dataFile' = dataFile]_vars

\* C3: the data file is append-only: every step of every writer leaves the
\* bytes already in the data file where they are and as they are.
C3_AppendOnly ==
    [][/\ Len(dataFile') >= Len(dataFile)
       /\ SubSeq(dataFile', 1, Len(dataFile)) = dataFile]_vars

\* two sessions have appended, and one of them is retrying after a read-back
\* that did not match
C3_Witness ==
    /\ Cardinality(sessions) > 1
    /\ Len(dataFile) >= 2
    /\ \E w \in sessions : pc[w] = "seek" /\ tbuff[w].st = "live"

\* C4: when WriteTile returns failure because a step failed, the 16-byte index
\* record at the given index offset holds the value it had before the call.
\* Stated for the failure the claim singles out, a short append of the
\* payload: ret is CE_Failure before the index record is reached.
C4_FailureLeavesIndex ==
    [][\A w \in sessions :
        (IndexReturn(w) /\ ret[w] = CE_Failure /\ ret'[w] = CE_Failure)
            => ReadRecord(idxFile', infooffset[w]) = ReadRecord(idxFile, infooffset[w])]_vars

\* C5: with mp_safe, whatever the interleaving of the writers' seek, tell,
\* append and read-back steps, when a writer's WriteTile returns success the
\* data file holds that writer's payload at the offset and size of the index
\* record it wrote.
C5_MpSafe ==
    [][\A w \in sessions :
        (mp_safe /\ IndexReturn(w) /\ ret'[w] = CE_None /\ size[w] > 0)
            => StoredIs(idxFile', dataFile', infooffset[w], buff[w])]_vars

\* a writer is about to record a verified payload that does not start the
\* file while another writer's read-back has failed
C5_Witness ==
    /\ mp_safe
    /\ \E w \in sessions, v \in sessions :
         /\ w # v
         /\ pc[w] = "index" /\ size[w] > 0 /\ offset[w] > 0
         /\ tbuff[v].st = "live"

\* the slot at index offset io holds a non-empty tile other than the bytes b
StoredDiffers(idx, data, io, b) ==
    LET r == ReadTileIdx(idx, io)
    IN  /\ r.err = CE_None
        /\ r.size > 0
        /\ (r.size # Len(b) \/ TileBytes(data, r.offset, r.size) # b)

\* the slot's current record differs from the record at the same relative
\* offset in the latest snapshot generation of session w
DiffersFromSnapshot(w, io) ==
    ReadRecord(idxFile, io) # ReadRecord(idxFile, io + verCount[w] * idxSize)

\* generation k of the index file
Generation(idx, k) == SubSeq(idx, k * idxSize + 1, (k + 1) * idxSize)

\* C6: with versioning, in one session, a WriteTile whose payload differs from
\* the non-empty tile stored at the slot creates exactly one version: the
\* version counter after the call is the counter before plus one.
C6_OneVersionPerChange ==
    [][\A w \in sessions :
        (hasVersions /\ CallStep(w) /\ Len(last'[2]) > 0
            /\ StoredDiffers(idxFile, dataFile, last'[4], last'[2]))
            => verCount'[w] = verCount[w] + 1]_vars

\* C6 as amended: such a call creates exactly one version when it goes on to
\* write the tile and either the version counter is 0 or the slot's current
\* record differs from its record in the latest snapshot; otherwise none.
C6_VersionWhenChanged ==
    [][\A w \in sessions :
        (hasVersions /\ CallStep(w) /\ Len(last'[2]) > 0
            /\ StoredDiffers(idxFile, dataFile, last'[4], last'[2]))
            => verCount'[w] =
                 IF pc'[w] # "idle" /\ (verCount[w] = 0 \/ DiffersFromSnapshot(w, last'[4]))
                 THEN verCount[w] + 1
                 ELSE verCount[w]]_vars

\* a call that overwrites a stored tile has just made the second snapshot
C6_Witness ==
    /\ hasVersions
    /\ sessions = {1}
    /\ pc[1] = "seek"
    /\ verCount[1] = 2
    /\ ReadTileIdx(idxFile, infooffset[1]).size > 0
    /\ StoredDiffers(idxFile, dataFile, infooffset[1], buff[1])
    /\ Generation(idxFile, 2) = Generation(idxFile, 0)

\* C7: with versioning, a WriteTile whose payload is byte-identical to the
\* tile stored at the slot returns success at once and leaves the version
\* counter, the index file and the data file unchanged.
C7_SamePayloadNoVersion ==
    [][\A w \in sessions :
        (hasVersions /\ CallStep(w) /\ Len(last'[2]) > 0
            /\ StoredIs(idxFile, dataFile, last'[4], last'[2]))
            => /\ pc'[w] = "idle"
               /\ ret'[w] = CE_None
               /\ UNCHANGED <<verCount, idxFile, dataFile>>]_vars

\* C8: with versioning and one session, when WriteTile replaces a record of
\* non-zero size by a different record, the replaced record is afterwards
\* stored at the same relative offset of some snapshot generation k >= 1.
C8_HistoryPreserved ==
    [][\A w \in sessions :
        (hasVersions /\ sessions = {w} /\ IndexReturn(w)
            /\ RecSize(ReadRecord(idxFile, infooffset[w])) # Zeros(8)
            /\ ReadRecord(idxFile', infooffset[w]) # ReadRecord(idxFile, infooffset[w]))
            => \E k \in 1..verCount[w] :
                 ReadRecord(idxFile', infooffset[w] + k * idxSize)
                     = ReadRecord(idxFile, infooffset[w])]_vars

\* the last call replaced a non-empty record that generation 1 still holds
C8_Witness ==
    /\ hasVersions
    /\ sessions = {1}
    /\ pc[1] = "idle"
    /\ verCount[1] >= 1
    /\ last # <<>>
    /\ RecSize(ReadRecord(idxFile, last[4] + idxSize)) # Zeros(8)
    /\ ReadRecord(idxFile, last[4]) # ReadRecord(idxFile, last[4] + idxSize)

\* C9: AddVersion with counter v and generation size G leaves the counter at
\* v + 1, the bytes [G*(v+1), G*(v+2)) equal to the bytes [0, G) and every
\* other byte of the index as it was.
C9_AddVersionCopies ==
    [][\A w \in sessions :
        (pc[w] = "idle" /\ (verCount'[w] # verCount[w] \/ idxFile' # idxFile))
            => LET v == verCount[w]
                   G == idxSize
               IN  /\ verCount'[w] = v + 1
                   /\ Len(idxFile') = Max(Len(idxFile), G * (v + 2))
                   /\ \A i \in 1..Len(idxFile') :
                        idxFile'[i] = IF i > G * (v + 1) /\ i <= G * (v + 2)
                                      THEN idxFile[i - G * (v + 1)]
                                      ELSE idxFile[i]]_vars

\* the second snapshot has just been taken of a generation that holds a tile
C9_Witness ==
    /\ sessions = {1}
    /\ pc[1] \in {"seek", "index"}
    /\ verCount[1] = 2
    /\ Len(idxFile) = 3 * idxSize
    /\ Generation(idxFile, 0) # Zeros(idxSize)
    /\ Generation(idxFile, 2) = Generation(idxFile, 0)
    /\ Generation(idxFile, 1) # Generation(idxFile, 0)

\* C10: for any interleaving of WriteTile calls of sessions that share a
\* versioned index, each with its own counter read at open, once generation
\* k >= 1 is written and a later generation exists no byte of generation k
\* changes.
C10_VersionImmutable ==
    [][\A k \in 1..MaxVer :
        Len(idxFile) >= (k + 2) * idxSize
            => Generation(idxFile', k) = Generation(idxFile, k)]_vars

\* ======================================================= opening a dataset
\* Initialize with its Rsets node, AddOverviews, the version count and
\* SetVersion, as GDALMRFDataset::Open runs them, and AddOverviews as
\* IBuildOverviews calls it on a dataset that has no overviews yet.
\* CreateCopy is an entry of its own: Create, then the whole-raster copy.

MaxLevels == 4      \* overview levels at which the AddOverviews loop is cut off
MaxGen == 2         \* snapshot generations the opened index file may hold

\* Raster.Size / Raster.PageSize pairs of one axis, in pixels
AxisX == { <<sx, px>> : sx \in {1, 4, 9}, px \in {1, 2, 4} }
AxisY == { <<1, 1>>, <<9, 2>>, <<4, 4>> }
\* channels and channels of one page
AxisC == { <<1, 1>>, <<3, 1>> }
\* Raster.Size z with the Z of the ornate file name, which Open takes as given
AxisZ == { <<1, 0>>, <<1, 1>>, <<2, 0>>, <<2, 1>>, <<2, 2>> }
\* IndexFile offset of the configuration
BaseOffsets == { 0, 16 }
\* Rsets scale of the configuration, in tenths (getXMLNum returns a double)
ConfigScales == { 10, 15, 20, 30 }
\* first overview factor handed to IBuildOverviews
OverviewFactors == { 2, 3 }
\* the NOCOPY option handed to CreateCopy: absent or on
NoCopyOptions == { 0, 1 }
\* what Create hands back to CreateCopy
CreateOutcomes == { "null", "crystalized", "created" }

\* page count of one axis: the ceiling of size / pagesize
pcount(tsz, psz) == (tsz + psz - 1) \div psz

\* page counts of an image, l being the total of the level
pcountSize(sz, psz) ==
    LET cx == pcount(sz.x, psz.x)
        cy == pcount(sz.y, psz.y)
        cz == pcount(sz.z, psz.z)
        cc == pcount(sz.c, psz.c)
    IN  [x |-> cx, y |-> cy, z |-> cz, c |-> cc, l |-> cx * cy * cz * cc]

\* int(scale) of a double that is given in tenths
IntOf(tenths) == tenths \div 10

\* full, as Init(ialize) of the image leaves it
FullImage(ax, ay, ac, az, base) ==
    LET sz == [x |-> ax[1], y |-> ay[1], z |-> az[1], c |-> ac[1], l |-> 0]
        psz == [x |-> ax[2], y |-> ay[2], z |-> 1, c |-> ac[2]]
    IN  [size |-> sz, pagesize |-> psz, pagecount |-> pcountSize(sz, psz),
         idxoffset |-> base]

\* current: full with the offset of the z slice added
CurrentImage(full, zs) ==
    IF full.size.z # 1
    THEN [full EXCEPT !.idxoffset =
              @ + ((sizeof_ILIdx * full.pagecount.l) \div full.size.z) * zs]
    ELSE full

\* the image of the next level when the y axis is left at its size
NextLevelKeepY(img, scale, zs) ==
    LET off1 == img.idxoffset
                  + ((sizeof_ILIdx * img.pagecount.l) \div img.size.z) * (img.size.z - zs)
        sz == [img.size EXCEPT !.x = pcount(img.size.x, scale), !.l = @ + 1]
        pcnt == pcountSize(sz, img.pagesize)
    IN  [img EXCEPT !.size = sz, !.pagecount = pcnt,
                    !.idxoffset = off1 + ((sizeof_ILIdx * pcnt.l) \div sz.z) * zs]

\* the image of the next level when the offset cursor skips whole levels only
NextLevelNoSlice(img, scale, zs) ==
    LET off1 == img.idxoffset + sizeof_ILIdx * img.pagecount.l
        sz == [img.size EXCEPT !.x = pcount(img.size.x, scale),
                               !.y = pcount(img.size.y, scale),
                               !.l = @ + 1]
        pcnt == pcountSize(sz, img.pagesize)
    IN  [img EXCEPT !.size = sz, !.pagecount = pcnt, !.idxoffset = off1]

\* one pass of the AddOverviews loop: the image of the next level
NextLevel(img, scale, zs) ==
    LET off1 == img.idxoffset
                  + ((sizeof_ILIdx * img.pagecount.l) \div img.size.z) * (img.size.z - zs)
        sz == [img.size EXCEPT !.x = pcount(img.size.x, scale),
                               !.y = pcount(img.size.y, scale),
                               !.l = @ + 1]
        pcnt == pcountSize(sz, img.pagesize)
    IN  [img EXCEPT !.size = sz, !.pagecount = pcnt,
                    !.idxoffset = off1 + ((sizeof_ILIdx * pcnt.l) \div sz.z) * zs]

\* the value AddOverviews returns once the loop is over
OverviewsSize(img, zs) ==
    img.idxoffset + ((sizeof_ILIdx * img.pagecount.l) \div img.size.z) * (img.size.z - zs)

\* index bytes of all the levels of an image: one record for every page
RECURSIVE IdxSize(_, _, _)
IdxSize(img, scale, fuel) ==
    IF img.pagecount.x * img.pagecount.y = 1 \/ fuel = 0
    THEN sizeof_ILIdx * img.pagecount.l
    ELSE sizeof_ILIdx * img.pagecount.l
           + IdxSize([NextLevel(img, scale, 0) EXCEPT !.idxoffset = 0], scale, fuel - 1)

\* the state of the write sessions
write == <<hasVersions, mp_safe, pagecount, sessions, idxFile, dataFile, faults,
           pc, verCount, buff, bptr, infooffset, size, tinfo, offset, ret, tbuff,
           repeat, last>>

InitOpening ==
    \E ax \in AxisX, ay \in AxisY, ac \in AxisC, az \in AxisZ, base \in BaseOffsets :
      \E e \in ({"Initialize"} \X ConfigScales) \cup ({"IBuildOverviews"} \X OverviewFactors)
                  \cup ({"CreateCopy"} \X NoCopyOptions) :
        LET full == FullImage(ax, ay, ac, az, base)
            cur == CurrentImage(full, az[2])
        IN  opening = [pc |-> e[1], entry |-> e[1], given |-> e[2], scale |-> 0, zslice |-> az[2],
                       base |-> base, full |-> full, img |-> cur, bands |-> <<cur>>,
                       retval |-> 0, idxSize |-> 0, hasVersions |-> FALSE,
                       verCount |-> 0, version |-> 0, err |-> CE_None,
                       poDS |-> "null", created |-> FALSE, copy |-> "none",
                       result |-> "none"]

\* Initialize: the Rsets node with the uniform model
Rsets ==
    /\ opening.pc = "Initialize"
    /\ opening' = IF opening.given <= 10
                  THEN [opening EXCEPT !.pc = "failed", !.err = CE_Failure]
                  ELSE [opening EXCEPT !.pc = "AddOverviews",
                                       !.scale = IntOf(opening.given)]
    /\ UNCHANGED <<write, cloning>>

\* IBuildOverviews: the scale is the first overview factor
BuildOverviews ==
    /\ opening.pc = "IBuildOverviews"
    /\ opening' = [opening EXCEPT !.pc = "AddOverviews", !.scale = opening.given]
    /\ UNCHANGED <<write, cloning>>

\* AddOverviews: one pass of the loop registers the next level of the bands
AddOverviewsLevel ==
    /\ opening.pc = "AddOverviews"
    /\ 1 # opening.img.pagecount.x * opening.img.pagecount.y
    /\ opening.img.size.l < MaxLevels
    /\ LET img == NextLevel(opening.img, opening.scale, opening.zslice)
       IN  opening' = [opening EXCEPT !.img = img, !.bands = Append(@, img)]
    /\ UNCHANGED <<write, cloning>>

\* AddOverviews: the loop is over; the caller takes or drops the value
AddOverviewsReturn ==
    /\ opening.pc = "AddOverviews"
    /\ 1 = opening.img.pagecount.x * opening.img.pagecount.y
    /\ LET r == OverviewsSize(opening.img, opening.zslice)
       IN  opening' = IF opening.entry = "Initialize"
                      THEN [opening EXCEPT !.pc = "versions", !.retval = r]
                      ELSE [opening EXCEPT !.pc = "done", !.retval = r, !.idxSize = r]
    /\ UNCHANGED <<write, cloning>>

\* version count of an index file of st_size bytes
VersionsOf(st_size, isz) == (st_size \div isz) - 1

\* sizes of the index file Initialize finds: empty, cut short inside its
\* first generation, or a whole number of generations
IndexFileSizes(isz) == { g * isz : g \in 0..(MaxGen + 1) } \cup { isz \div 2 }

\* Initialize: the index size and the version count of the index file
Versions ==
    /\ opening.pc = "versions"
    /\ LET isz == IdxSize(opening.full, opening.scale, MaxLevels)
       IN  \E hv \in BOOLEAN, st_size \in IndexFileSizes(isz) :
             opening' = [opening EXCEPT
                 !.pc = "version", !.idxSize = isz, !.hasVersions = hv,
                 !.verCount = IF hv THEN VersionsOf(st_size, isz) ELSE 0]
    /\ UNCHANGED <<write, cloning>>

\* the generation SetVersion moves the bands to
TargetVersion(version, vc) == vc

\* SetVersion: the images of the bands and of their overviews afterwards
SetVersion(o, version) ==
    IF ~o.hasVersions \/ version > o.verCount
    THEN [o EXCEPT !.pc = "failed", !.err = CE_Failure, !.version = version]
    ELSE [o EXCEPT !.pc = "done", !.version = version, !.hasVersions = FALSE,
             !.bands = [i \in 1..Len(o.bands) |->
                          [o.bands[i] EXCEPT !.idxoffset =
                               @ + o.idxSize * TargetVersion(version, o.verCount)]]]

\* Open: the V of the ornate file name selects one version
OpenVersion ==
    /\ opening.pc = "version"
    /\ \E version \in 0..(MaxGen + 1) :
         opening' = IF version # 0
                    THEN SetVersion(opening, version)
                    ELSE [opening EXCEPT !.pc = "done"]
    /\ UNCHANGED <<write, cloning>>

\* CreateCopy: Create, the setup of the new dataset and Crystalize; a null
\* or already crystalized dataset throws, the handler deletes it
CreateCopyCreate ==
    /\ opening.pc = "CreateCopy"
    /\ \E c \in CreateOutcomes :
         opening' = IF c = "created"
                    THEN [opening EXCEPT !.pc = "copy", !.poDS = "live",
                                         !.created = TRUE]
                    ELSE [opening EXCEPT !.pc = "returned", !.err = CE_Failure,
                              !.poDS = IF c = "null" THEN "null" ELSE "deleted",
                              !.result = "null"]
    /\ UNCHANGED <<write, cloning>>

\* the dataset and the value CreateCopy returns after the whole-raster copy
CopyReturn(err) ==
    IF CE_None = err
    THEN [poDS |-> "deleted", result |-> "null"]
    ELSE [poDS |-> "live", result |-> "poDS"]

\* CreateCopy: NOCOPY returns the empty MRF, else the raster is copied
CreateCopyCopy ==
    /\ opening.pc = "copy"
    /\ IF opening.given = 1
       THEN opening' = [opening EXCEPT !.pc = "returned", !.result = "poDS"]
       ELSE \E err \in {CE_None, CE_Failure} :
              opening' = [opening EXCEPT !.pc = "returned", !.copy = err,
                                         !.poDS = CopyReturn(err).poDS,
                                         !.result = CopyReturn(err).result]
    /\ UNCHANGED <<write, cloning>>

\* the write sessions and the caching datasets stay as they are
QuietWrite ==
    /\ hasVersions = FALSE
    /\ mp_safe = FALSE
    /\ pagecount = 1
    /\ sessions = {}
    /\ idxFile = Zeros(sizeof_ILIdx)
    /\ dataFile = <<>>
    /\ faults = 0
    /\ pc = <<>>
    /\ verCount = <<>>
    /\ buff = <<>>
    /\ bptr = <<>>
    /\ infooffset = <<>>
    /\ size = <<>>
    /\ tinfo = <<>>
    /\ offset = <<>>
    /\ ret = <<>>
    /\ tbuff = <<>>
    /\ repeat = <<>>
    /\ last = <<>>

InitOpen == QuietWrite /\ InitOpening /\ cloning = NotCloning

NextOpen ==
    \/ Rsets
    \/ BuildOverviews
    \/ AddOverviewsLevel
    \/ AddOverviewsReturn
    \/ Versions
    \/ OpenVersion
    \/ CreateCopyCreate
    \/ CreateCopyCopy

SpecOpen == InitOpen /\ [][NextOpen]_vars

\* ===================================================== caching datasets
\* IdxFP of a caching dataset and ReadTileIdx with a bias: the local index
\* holds the cache's own records in [0, bias) and the records cloned from
\* the source index in [bias, 2 * bias).  The processes that resolve share
\* the local index file; the owner of the source updates the source index.
\* The index files are kept at the record positions of TrackedOffsets.

MaxResolvers == 2       \* processes that resolve against the same local index
MaxRemoteWrites == 2    \* records the owner of the source writes

CPYSZ == 32768          \* const int CPYSZ
IdxFPTimeout == 5       \* int timeout = 5

\* generation size of the cloned source: 2049 tiles, one full block and one
\* block of a single record
CloneBias == 32784
\* first and last record of block 0, the record of block 1
TrackedOffsets == { 0, 32752, 32768 }
LocalOffsets == TrackedOffsets \cup { CloneBias + o : o \in TrackedOffsets }
\* records the owner of the source writes: a tile, then another tile
RemoteRecords == { MkRec(net64(2), net64(1)), MkRec(net64(3), net64(1)) }
\* sizes of the local index file when a process first opens it
LocalSizes == { 0, CloneBias, 2 * CloneBias }

Resolvers == DOMAIN cloning.proc

\* an empty source record, marked as checked
MarkNothing(rec) == rec
MarkEmpty(rec) ==
    IF RecOffset(rec) = Zeros(8) /\ RecSize(rec) = Zeros(8)
    THEN MkRec(net64(1), RecSize(rec))
    ELSE rec

\* every record taken to lie in the first block
BlockStartZero(off) == 0

\* start of the block of a record offset of the source index
BlockStart(off) == (off \div CPYSZ) * CPYSZ

\* bytes of the block that starts at off, cut at the end of the generation
BlockBytesOne(off, bias) == sizeof_ILIdx
BlockBytes(off, bias) == Min(CPYSZ, bias - off)

\* where in the local index the block of source offset off is stored
StoreAtSource(bias, off) == off
StoreAt(bias, off) == bias + off

\* the records of [off, off + n) of an index kept at TrackedOffsets
ReadBlock(idx, off, n) ==
    [o \in { t \in DOMAIN idx : t >= off /\ t + sizeof_ILIdx <= off + n } |-> idx[o]]

\* an index after the records of a block are written at byte offset at
WriteBlock(idx, at, block, off) ==
    [o \in DOMAIN idx |->
        IF (o - at) + off \in DOMAIN block THEN block[(o - at) + off] ELSE idx[o]]

\* CheckFileSize with GA_ReadOnly
CheckFileSize(st_size, expected) == st_size >= expected

\* timeout after one more pass of the wait loop
NextTimeoutStuck(t) == t
NextTimeout(t) == t - 1

NewProc(cr) ==
    [pc |-> "idle", cryst |-> cr, fp |-> FALSE, timeout |-> 0, checks |-> 0,
     req |-> 0, boff |-> 0, buf |-> <<>>, seen |-> <<>>,
     tinfo |-> [offset |-> 0, size |-> 0], ret |-> "none", err |-> "none",
     fetched |-> FALSE]

InitCloning(R) ==
    \E sz \in LocalSizes, cr \in [R -> BOOLEAN] :
        cloning = [pc |-> <<>>,
                   bias |-> CloneBias,
                   fsize |-> sz,
                   local |-> [o \in LocalOffsets |-> Zeros(sizeof_ILIdx)],
                   remote |-> [o \in TrackedOffsets |-> Zeros(sizeof_ILIdx)],
                   writes |-> 0,
                   resolved |-> {},
                   proc |-> [r \in R |-> NewProc(cr[r])]]

Proc(r) == cloning.proc[r]
expected_size == 2 * cloning.bias

\* ReadTileIdx returns to its caller
RT_Return(p, e, t) ==
    [p EXCEPT !.pc = "idle", !.ret = e, !.tinfo = t, !.timeout = 0, !.checks = 0,
              !.boff = 0, !.buf = <<>>, !.seen = <<>>]

\* ReadTileIdx(tinfo, pos, img, bias) is called; it calls IdxFP first
RT_Call(r, off) ==
    /\ Proc(r).pc = "idle"
    /\ cloning' = [cloning EXCEPT !.proc[r] =
           [@ EXCEPT !.pc = IF Proc(r).fp THEN "read" ELSE "IdxFP",
                     !.req = off, !.fetched = FALSE, !.checks = 0,
                     !.ret = "none", !.err = "none", !.buf = <<>>, !.seen = <<>>]]
    /\ UNCHANGED <<write, opening>>

\* IdxFP: the file opens; a dataset that is not crystalized extends it
IdxFP_Open(r) ==
    /\ Proc(r).pc = "IdxFP"
    /\ \E extended \in BOOLEAN :
         IF ~Proc(r).cryst /\ ~extended
         THEN cloning' = [cloning EXCEPT !.proc[r] =
                  RT_Return([@ EXCEPT !.fp = TRUE, !.err = "extend"],
                            CE_Failure, @.tinfo)]
         ELSE cloning' = [cloning EXCEPT
                  !.fsize = IF Proc(r).cryst THEN @ ELSE Max(@, expected_size),
                  !.proc[r] = [@ EXCEPT !.fp = TRUE, !.pc = "check",
                                        !.timeout = IdxFPTimeout]]
    /\ UNCHANGED <<write, opening>>

\* IdxFP: one size check of the wait loop
IdxFP_Check(r) ==
    /\ Proc(r).pc = "check"
    /\ cloning' = [cloning EXCEPT !.proc[r] =
           [@ EXCEPT !.checks = @ + 1,
                     !.pc = IF CheckFileSize(cloning.fsize, expected_size)
                            THEN "read" ELSE "sleep"]]
    /\ UNCHANGED <<write, opening>>

\* IdxFP: the sleep is over; the loop goes on or IdxFP times out
IdxFP_Sleep(r) ==
    /\ Proc(r).pc = "sleep"
    /\ LET t == NextTimeout(Proc(r).timeout)
       IN  cloning' = [cloning EXCEPT !.proc[r] =
               IF t # 0
               THEN [@ EXCEPT !.timeout = t, !.pc = "check"]
               ELSE RT_Return([@ EXCEPT !.timeout = t, !.err = "timeout"],
                              CE_Failure, @.tinfo)]
    /\ UNCHANGED <<write, opening>>

\* ReadTileIdx: the record at bias + offset of the local index
RT_Read(r) ==
    /\ Proc(r).pc = "read"
    /\ LET at == cloning.bias + Proc(r).req
           rec == cloning.local[at]
           t == [offset |-> host64(RecOffset(rec)), size |-> host64(RecSize(rec))]
       IN  cloning' = [cloning EXCEPT !.proc[r] =
               IF at + sizeof_ILIdx > cloning.fsize
               THEN RT_Return(@, CE_Failure, @.tinfo)
               ELSE IF 0 = cloning.bias \/ 0 # t.size \/ 0 # t.offset
               THEN RT_Return(@, CE_None, t)
               ELSE [@ EXCEPT !.pc = "fetch", !.tinfo = t,
                              !.boff = BlockStart(Proc(r).req)]]
    /\ UNCHANGED <<write, opening>>

\* ReadTileIdx: the block is read from the source index and marked
RT_Fetch(r) ==
    /\ Proc(r).pc = "fetch"
    /\ LET raw == ReadBlock(cloning.remote, Proc(r).boff,
                            BlockBytes(Proc(r).boff, cloning.bias))
       IN  cloning' = [cloning EXCEPT !.proc[r] =
               [@ EXCEPT !.pc = "store", !.fetched = TRUE,
                         !.seen = cloning.remote,
                         !.buf = [o \in DOMAIN raw |-> MarkEmpty(raw[o])]]]
    /\ UNCHANGED <<write, opening>>

\* ReadTileIdx: the block is written to the local index; the call restarts
RT_Store(r) ==
    /\ Proc(r).pc = "store"
    /\ LET at == StoreAt(cloning.bias, Proc(r).boff)
       IN  cloning' = [cloning EXCEPT
               !.local = WriteBlock(@, at, Proc(r).buf, Proc(r).boff),
               !.fsize = Max(@, at + BlockBytes(Proc(r).boff, cloning.bias)),
               !.resolved = @ \cup { Proc(r).boff },
               !.proc[r] = [@ EXCEPT !.pc = "read"]]
    /\ UNCHANGED <<write, opening>>

\* the owner of the source writes the record of a tile
RemoteWrite(off, rec) ==
    /\ cloning.writes < MaxRemoteWrites
    /\ cloning.remote[off] # rec
    /\ cloning' = [cloning EXCEPT !.remote[off] = rec, !.writes = @ + 1]
    /\ UNCHANGED <<write, opening>>

\* another caching process extends the local index file from its own IdxFP
LocalExtended ==
    /\ cloning.fsize < expected_size
    /\ cloning' = [cloning EXCEPT !.fsize = expected_size]
    /\ UNCHANGED <<write, opening>>

InitClone == QuietWrite /\ opening = NotOpening /\ InitCloning({1})
InitCloneMW == QuietWrite /\ opening = NotOpening /\ InitCloning(1..MaxResolvers)

ResolverStep(r) ==
    \/ \E off \in TrackedOffsets : RT_Call(r, off)
    \/ IdxFP_Open(r)
    \/ IdxFP_Check(r)
    \/ IdxFP_Sleep(r)
    \/ RT_Read(r)
    \/ RT_Fetch(r)
    \/ RT_Store(r)

NextClone ==
    \/ \E r \in Resolvers : ResolverStep(r)
    \/ \E off \in TrackedOffsets, rec \in RemoteRecords : RemoteWrite(off, rec)
    \/ LocalExtended

SpecClone == InitClone /\ [][NextClone]_vars

SpecCloneMW == InitCloneMW /\ [][NextClone]_vars

\* a process that is inside IdxFP keeps running: the sleep returns
SpecCloneLive ==
    InitClone /\ [][NextClone]_vars
        /\ WF_vars(IdxFP_Open(1) \/ IdxFP_Check(1) \/ IdxFP_Sleep(1))

\* ------------------------------------------------------------ claims 11-14
Bands == opening.bands
PastOverviews == opening.pc \in {"versions", "version", "done"}
     \/ (opening.pc = "failed" /\ opening.scale # 0)

\* C11: a successful SetVersion(k) with 1 <= k <= versionCount adds exactly
\* k * generationSize to the index offset of every band and overview level;
\* SetVersion fails and changes no offset when versioning is disabled or
\* k > versionCount.
C11_SetVersionAddresses ==
    [][(opening.pc = "version" /\ opening'.version # 0)
        => LET k == opening'.version
           IN  IF opening.hasVersions /\ k <= opening.verCount
               THEN /\ opening'.err = CE_None
                    /\ Len(opening'.bands) = Len(Bands)
                    /\ \A i \in 1..Len(Bands) :
                         opening'.bands[i].idxoffset
                             = Bands[i].idxoffset + k * opening.idxSize
               ELSE /\ opening'.err = CE_Failure
                    /\ opening'.bands = Bands]_vars

Ceil(a, b) == IF a % b = 0 THEN a \div b ELSE (a \div b) + 1
RECURSIVE Power(_, _)
Power(s, l) == IF l = 0 THEN 1 ELSE s * Power(s, l - 1)

\* C12: for every raster size, tile size and integer scale s >= 2, level l
\* made by AddOverviews has the tile grid ceil(ceil(width/tileWidth)/s^l) by
\* ceil(ceil(height/tileHeight)/s^l); levels are made for l = 1, 2, ... and
\* stop at the first level whose grid is 1x1.
C12_PyramidGeometry ==
    (opening.pc # "none" /\ opening.scale >= 2)
        => LET f == opening.full
               gx(l) == Ceil(Ceil(f.size.x, f.pagesize.x), Power(opening.scale, l))
               gy(l) == Ceil(Ceil(f.size.y, f.pagesize.y), Power(opening.scale, l))
           IN  /\ \A i \in 1..Len(Bands) :
                    /\ Bands[i].size.l = i - 1
                    /\ Bands[i].pagecount.x = gx(i - 1)
                    /\ Bands[i].pagecount.y = gy(i - 1)
               /\ \A i \in 1..(Len(Bands) - 1) : gx(i - 1) * gy(i - 1) # 1
               /\ PastOverviews => gx(Len(Bands) - 1) * gy(Len(Bands) - 1) = 1

\* a pyramid of scale 2 with four overview levels, 9x5 tiles at the base
C12_Witness ==
    /\ opening.pc = "done"
    /\ opening.scale = 2
    /\ Len(Bands) = 5
    /\ Bands[1].pagecount.x = 9 /\ Bands[1].pagecount.y = 5
    /\ Bands[5].pagecount.x = 1 /\ Bands[5].pagecount.y = 1

RECURSIVE SumPages(_, _)
SumPages(b, n) == IF n = 0 THEN 0 ELSE b[n].pagecount.l + SumPages(b, n - 1)

\* first index byte of the region of level i, all z slices included
RegionStart(i) ==
    Bands[i].idxoffset
      - ((sizeof_ILIdx * Bands[i].pagecount.l) \div Bands[i].size.z) * opening.zslice

\* the z slice selector is one of 0..z-1
SliceInRange == opening.zslice < opening.full.size.z

\* C13: the value AddOverviews returns is the configured base index offset
\* plus 16 bytes for every tile (x * y * z * channel groups) of every level,
\* whatever the z slice in 0..z-1; the region of each level starts where the region
\* of the level before it ends.
C13_PyramidIndexSize ==
    /\ (opening.pc # "none" /\ opening.version = 0 /\ SliceInRange)
          => /\ RegionStart(1) = opening.base
             /\ \A i \in 1..(Len(Bands) - 1) :
                  RegionStart(i + 1) = RegionStart(i) + sizeof_ILIdx * Bands[i].pagecount.l
    /\ (PastOverviews /\ SliceInRange)
          => /\ opening.retval = opening.base + sizeof_ILIdx * SumPages(Bands, Len(Bands))
             /\ \A i \in 1..Len(Bands) :
                  Bands[i].pagecount.l
                      = Bands[i].pagecount.x * Bands[i].pagecount.y
                          * opening.full.size.z * Bands[i].pagecount.c

\* AddOverviews has returned for the second z slice of a pyramid of three
\* levels or more with several channel groups
C13_Witness ==
    /\ opening.pc = "versions"
    /\ opening.zslice = 1
    /\ opening.base # 0
    /\ Len(Bands) >= 3
    /\ Bands[1].pagecount.c > 1
    /\ opening.retval > opening.base

\* C14: whenever AddOverviews runs, from Initialize with a scale that passed
\* its check or from IBuildOverviews, each new level has a strictly smaller
\* tile-grid area than the level before it (so the loop ends at a 1x1 grid).
C14_PyramidTerminates ==
    [][(opening.pc = "AddOverviews" /\ opening'.img # opening.img)
        => opening'.img.pagecount.x * opening'.img.pagecount.y
             < opening.img.pagecount.x * opening.img.pagecount.y]_vars

\* ------------------------------------------------------------ claims 15-19
EmptyRec == Zeros(sizeof_ILIdx)
CheckedRec == MkRec(net64(1), net64(0))
\* two source offsets lie in the same 32 KiB block of the generation
SameBlock(i, j) == i \div 32768 = j \div 32768
Stepped(r) == cloning'.proc[r] # cloning.proc[r]
Returns(r, from) == Proc(r).pc = from /\ cloning'.proc[r].pc = "idle"

\* C15: when ReadTileIdx with a bias finds an all-zero local record and
\* succeeds, every record position i of the 32 KiB-aligned block of the
\* requested offset (cut at bias) holds locally the source record at i if
\* that is not all-zero and {offset 1, size 0} otherwise; none is all-zero.
C15_CloneResolution ==
    [][\A r \in Resolvers :
        (Returns(r, "read") /\ cloning'.proc[r].ret = CE_None
            /\ Proc(r).fetched /\ Proc(r).seen = cloning.remote)
            => \A i \in TrackedOffsets :
                 (SameBlock(i, Proc(r).req) /\ i < cloning.bias)
                    => /\ cloning'.local[cloning.bias + i]
                            = IF cloning.remote[i] # EmptyRec
                              THEN cloning.remote[i] ELSE CheckedRec
                       /\ cloning'.local[cloning.bias + i] # EmptyRec]_vars

\* a call for the last record of block 0 resolved the block: its first record
\* is a tile of the source, its last one was empty there
C15_Witness ==
    /\ DOMAIN cloning.proc = {1}
    /\ Proc(1).pc = "idle" /\ Proc(1).ret = CE_None /\ Proc(1).fetched
    /\ Proc(1).req = 32752
    /\ cloning.remote[0] # EmptyRec
    /\ cloning.local[cloning.bias] = cloning.remote[0]
    /\ cloning.local[cloning.bias + 32752] = CheckedRec
    /\ cloning.local[cloning.bias + 32768] = EmptyRec

\* C16: once a block is resolved, every later ReadTileIdx for a position of
\* that block returns the stored record without reading the source index,
\* positions that are empty in the source included.
C16_ResolvedOnce ==
    [][\A r \in Resolvers :
        (Proc(r).pc = "read" /\ Stepped(r)
            /\ (Proc(r).req \div 32768) * 32768 \in cloning.resolved)
            => LET rec == cloning.local[cloning.bias + Proc(r).req]
               IN  /\ cloning'.proc[r].pc = "idle"
                   /\ cloning'.proc[r].ret = CE_None
                   /\ cloning'.proc[r].tinfo.offset = host64(RecOffset(rec))
                   /\ cloning'.proc[r].tinfo.size = host64(RecSize(rec))
                   /\ cloning'.proc[r].fetched = Proc(r).fetched]_vars

\* a later call for the first record of block 0, resolved by an earlier call
\* while that record was empty in the source, returned the stored marker
C16_Witness ==
    /\ DOMAIN cloning.proc = {1}
    /\ Proc(1).pc = "idle" /\ Proc(1).ret = CE_None /\ ~Proc(1).fetched
    /\ Proc(1).req = 0
    /\ 0 \in cloning.resolved
    /\ Proc(1).tinfo = [offset |-> 1, size |-> 0]
    /\ cloning.remote[0] # EmptyRec

\* C17: for any interleaving of resolvers of the same block and of updates
\* of the source index by its owner, a local cloned record that has become
\* non-zero never changes to a different value.
C17_ResolvedNeverChanges ==
    [][\A o \in TrackedOffsets :
        cloning.local[cloning.bias + o] # EmptyRec
            => cloning'.local[cloning.bias + o] = cloning.local[cloning.bias + o]]_vars

\* C18: a clone resolution writes to the local index only below bias; the
\* local index at offsets >= bias is left unchanged by resolution.
C18_WritesBelowBias ==
    [][\A r \in Resolvers :
        (Proc(r).pc = "store" /\ Stepped(r))
            => \A o \in LocalOffsets :
                 o >= cloning.bias => cloning'.local[o] = cloning.local[o]]_vars

\* C18 as amended: a clone resolution writes to the local index only in
\* [bias, 2 * bias), the block of source offsets [b, b + n) at bias + b; the
\* local index below bias is left unchanged by resolution.
C18_WritesCloneRegion ==
    [][\A r \in Resolvers :
        (Proc(r).pc = "store" /\ Stepped(r))
            => \A o \in LocalOffsets :
                 IF o >= cloning.bias /\ o < 2 * cloning.bias
                      /\ SameBlock(o - cloning.bias, Proc(r).req)
                 THEN cloning'.local[o] = Proc(r).buf[o - cloning.bias]
                 ELSE cloning'.local[o] = cloning.local[o]]_vars

\* block 1 has been stored at bias + 32768 and nothing else was written
C18_Witness ==
    /\ cloning.pc = <<>> /\ DOMAIN cloning.proc = {1}
    /\ cloning.resolved = {32768}
    /\ cloning.local[cloning.bias + 32768] # EmptyRec
    /\ \A o \in LocalOffsets :
         o # cloning.bias + 32768 => cloning.local[o] = EmptyRec

\* C19: for a caching dataset whose index file opens but does not reach the
\* expected size, IdxFP makes at most 5 size checks, each followed by a
\* sleep, then returns failure with the timeout error; whatever the file
\* does, a process inside the wait loop leaves it.
C19_BoundedWait ==
    /\ [][/\ cloning'.proc[1].checks <= 5
          /\ Returns(1, "sleep")
                => /\ Proc(1).checks = 5
                   /\ cloning'.proc[1].ret = CE_Failure
                   /\ cloning'.proc[1].err = "timeout"]_vars
    /\ (cloning.proc[1].pc = "check") ~> (cloning.proc[1].pc \notin {"check", "sleep"})

\* IdxFP of a crystalized cache timed out on an index of half the size
C19_Witness ==
    /\ DOMAIN cloning.proc = {1}
    /\ Proc(1).pc = "idle" /\ Proc(1).err = "timeout" /\ Proc(1).ret = CE_Failure
    /\ Proc(1).fp
    /\ cloning.fsize = cloning.bias

\* --------------------------------------------------------------- claim 20
\* C20: if the snapshot write of AddVersion fails during a versioned
\* WriteTile, the call returns failure, the version counter keeps its value
\* and no index byte is written, neither of the tile's record nor of a new
\* generation.
C20_NoPartialVersion ==
    [][\A w \in sessions :
        (hasVersions /\ pc[w] = "idle" /\ faults' > faults)
            => /\ pc'[w] = "idle"
               /\ ret'[w] = CE_Failure
               /\ verCount'[w] = verCount[w]
               /\ idxFile' = idxFile]_vars

\* ------------------------------------------------------------ claims 21-25
\* C21: with versioning and a version counter >= 1, a WriteTile that changes
\* a slot whose current record equals its record in the latest snapshot
\* creates no version (counter and index unchanged before the record is
\* rewritten); a version is created before the write exactly when the call
\* goes on to write and the current record differs from the snapshot's.
C21_ChangeTriggered ==
    [][\A w \in sessions :
        (hasVersions /\ CallStep(w) /\ verCount[w] >= 1)
            => LET vc == verCount[w]
                   cur == ReadRecord(idxFile, last'[4])
                   prev == ReadRecord(idxFile, last'[4] + vc * idxSize)
               IN  /\ verCount'[w] \in {vc, vc + 1}
                   /\ verCount'[w] = vc + 1 <=> (pc'[w] # "idle" /\ cur # prev)
                   /\ cur = prev => idxFile' = idxFile
                   /\ verCount'[w] = vc + 1
                        => Generation(idxFile', vc + 1) = Generation(idxFile, 0)]_vars

\* a call is about to replace a stored tile that generation 1 already holds:
\* the index still has its two generations
C21_Witness ==
    /\ hasVersions
    /\ sessions = {1}
    /\ pc[1] = "seek"
    /\ verCount[1] = 1
    /\ Len(idxFile) = 2 * idxSize
    /\ RecSize(ReadRecord(idxFile, infooffset[1])) # Zeros(8)
    /\ ReadRecord(idxFile, infooffset[1]) = ReadRecord(idxFile, infooffset[1] + idxSize)
    /\ Generation(idxFile, 1) # Generation(idxFile, 0)

\* C22: with versioning and a version counter of 0, every WriteTile (payload,
\* marker or erase) to a slot whose current record is empty leaves the
\* counter at 0.
C22_NoVersionForFirstWrite ==
    [][\A w \in sessions :
        (hasVersions /\ CallStep(w) /\ verCount[w] = 0
            /\ ReadRecord(idxFile, last'[4]) = Zeros(sizeof_ILIdx))
            => verCount'[w] = 0]_vars

\* C23: with mp_safe disabled, a WriteTile with size > 0 that goes on to
\* write appends the payload once and then writes the index record, with or
\* without versioning and whatever the size of the stored tile.
C23_NoRetryWithoutMpSafe ==
    [][\A w \in sessions :
        (~mp_safe /\ pc[w] = "write" /\ pc'[w] # "write")
            => pc'[w] = "index"]_vars

\* C24: with mp_safe enabled and a writer that keeps being scheduled, every
\* WriteTile that enters the append / read-back loop eventually leaves it
\* and reaches the write of its index record (a data file that has reached
\* MaxData bytes ends the observation).
C24_LoopLeaves ==
    (mp_safe /\ pc[1] \in {"seek", "write", "verify"})
        ~> (pc[1] = "index" \/ (pc[1] = "write" /\ Len(dataFile) + size[1] > MaxData))

\* C25: a WriteTile of size 0 leaves the data file unchanged; with a null
\* buffer the slot's record becomes (0,0), with a non-null buffer it gets
\* size 0 and a non-zero offset, so the two are always told apart.
C25_EraseVersusMarker ==
    [][\A w \in sessions :
        /\ (CallStep(w) /\ Len(last'[2]) = 0) => dataFile' = dataFile
        /\ (sessions = {w} /\ IndexReturn(w) /\ size[w] = 0)
              => LET rec == ReadRecord(idxFile', infooffset[w])
                 IN  /\ dataFile' = dataFile
                     /\ bptr[w] = 0 => rec = Zeros(sizeof_ILIdx)
                     /\ bptr[w] # 0 => /\ RecSize(rec) = Zeros(8)
                                       /\ RecOffset(rec) # Zeros(8)]_vars

\* ------------------------------------------------------------ claims 26-27
\* C26: IdxFP hands out a non-null handle only when the index file has at
\* least the expected size, also on a call made after an earlier call of
\* the same dataset failed.
C26_HandleMeansSized ==
    [][\A r \in Resolvers :
        (Proc(r).pc \in {"idle", "check"} /\ cloning'.proc[r].pc = "read")
            => CheckFileSize(cloning.fsize, expected_size)]_vars

\* C27: one ReadTileIdx with a bias reads at most one block of the source
\* index and restarts at most once: the requested record lies inside the
\* block it fetches, so the read after the store finds a non-zero record
\* and returns it.
C27_OneFetch ==
    [][\A r \in Resolvers :
        /\ (Stepped(r) /\ cloning'.proc[r].pc = "fetch") => ~Proc(r).fetched
        /\ (Stepped(r) /\ cloning'.proc[r].pc = "store")
              => LET q == cloning'.proc[r]
                 IN  /\ q.boff <= q.req
                     /\ q.req + sizeof_ILIdx <= q.boff + BlockBytes(q.boff, cloning.bias)
                     /\ q.req \in DOMAIN q.buf
        /\ (Proc(r).pc = "read" /\ Proc(r).fetched /\ Stepped(r))
              => /\ cloning'.proc[r].pc = "idle"
                 /\ cloning'.proc[r].ret = CE_None
                 /\ cloning'.proc[r].tinfo # [offset |-> 0, size |-> 0]]_vars

\* a call for the record of block 1 fetched that block, restarted and
\* returned the marker of a record that is empty in the source
C27_Witness ==
    /\ DOMAIN cloning.proc = {1}
    /\ Proc(1).pc = "idle" /\ Proc(1).ret = CE_None /\ Proc(1).fetched
    /\ Proc(1).req = 32768
    /\ Proc(1).tinfo = [offset |-> 1, size |-> 0]
    /\ cloning.resolved = {32768}

\* ------------------------------------------------------------ claims 28-30
\* first index byte of level i: the base offset and the records of all the
\* levels before it
LevelStart(i) == opening.base + sizeof_ILIdx * SumPages(Bands, i - 1)
\* index bytes of level i, all its z slices included
LevelRegionBytes(i) == sizeof_ILIdx * Bands[i].pagecount.l

\* C28: for a raster with several z slices and every z slice selector s
\* that Open accepts, the index offset of
\* level l (the base level from Initialize, the others from AddOverviews) is
\* levelStart_l + s * (levelRegionBytes_l / z) and the slice's part of the
\* level lies inside the region of level l.
C28_SliceInsideLevel ==
    (opening.pc # "none" /\ opening.version = 0 /\ opening.full.size.z # 1)
        => \A i \in 1..Len(Bands) :
             LET chunk == LevelRegionBytes(i) \div opening.full.size.z
             IN  /\ Bands[i].idxoffset = LevelStart(i) + opening.zslice * chunk
                 /\ LevelStart(i) <= Bands[i].idxoffset
                 /\ Bands[i].idxoffset + chunk <= LevelStart(i) + LevelRegionBytes(i)

\* C29: for a versioned raster the version count that Initialize derives
\* from the index file is never negative, whatever the size of the file.
C29_CounterNotNegative ==
    (opening.pc \in {"version", "done", "failed"} /\ opening.entry = "Initialize")
        => opening.verCount >= 0

\* C30: CreateCopy returns the dataset if and only if it was created and,
\* unless NOCOPY is on, the whole-raster copy succeeded; after a failed copy
\* it returns null and the dataset has been deleted.
C30_CreateCopyResult ==
    opening.pc = "returned"
        => /\ opening.result = "poDS"
                <=> (opening.created /\ (opening.given = 1 \/ opening.copy = CE_None))
           /\ opening.copy = CE_Failure
                => (opening.result = "null" /\ opening.poDS = "deleted")
           /\ opening.result = "poDS" => opening.poDS = "live"

====
